---- MODULE Spec2Model ----
(***************************************************************************)
(* State-machine model of the delayed scrobble queue of the Simkl          *)
(* scrobbler addon (src/src/queue.ts): the per-user registry userJobIds,   *)
(* the BullMQ job store behind scrobbleQueue, the asynchronous steps of    *)
(* scheduleScrobble / cancelPendingScrobble, the worker that runs          *)
(* processScrobbleJob, and the worker's completed/failed callbacks; and    *)
(* of the subtitles handler (src/unnamed/part_001) that works out the job  *)
(* data and the delay of a request and calls scheduleScrobble.             *)
(*                                                                         *)
(* Every await of the source is a separate step: a request "lands" on the  *)
(* store (reads or writes `store`) in one action and the code that runs    *)
(* after the await touches the in-memory registry in a later action, so    *)
(* calls interleave exactly where the event loop lets them.                *)
(***************************************************************************)
EXTENDS Integers, Sequences, FiniteSets, TLC

VARIABLES
    now,        \* Date.now(), in ticks
    worker,     \* queue.ts:152  worker !== null
    workers,    \* the Worker objects built by `new Worker` (queue.ts:164) and not closed
    registry,   \* queue.ts:37   userJobIds : userId -> jobId
    store,      \* the BullMQ job store behind scrobbleQueue : jobId -> job
    calls,      \* the scheduleScrobble / cancelPendingScrobble calls and where each stands;
                \* preds (the calls that were over when this one began) is history
    exec,       \* the processScrobbleJob executions, one per active job
    ran,        \* history: how many times the job added by each call began executing
    superseded, \* history: jobs still pending when a later call for their user returned
    early,      \* history: a job of the user began executing before/while a call of the user ran
    plan        \* part_001:92-188  what the subtitles handler worked out for the request
                \* behind each call: its configuration, its locals and how it returned

vars == <<now, worker, workers, registry, store, calls, exec, ran, superseded, early, plan>>

----------------------------------------------------------------------------
(* Bounds of the model *)

MaxCalls == 3
MaxClock == 2
MaxDelay == 1

Users   == {"u1", "u2"}
CallIds == 1..MaxCalls
Times   == 0..MaxClock
Delays  == 1..MaxDelay

(* Program constants *)

Concurrency == 5

----------------------------------------------------------------------------
(* Values *)

Undef    == -1                       \* a number field that is undefined
NoToken  == "undefined"              \* anilistToken undefined
Null     == -2                       \* searchAnimeByMalId returned null
NoJob    == <<>>                     \* userJobIds.get(userId) === undefined

\* JavaScript truthiness of an optional number (undefined and 0 are falsy)
TruthyNum(n) == n /= Undef /\ n /= 0

\* JavaScript truthiness of an optional string (undefined and "" are falsy)
TruthyStr(s) == s /= NoToken /\ s /= ""

\* `scrobble-${userId}-${Date.now()}`: digits hold no '-', so the text is
\* injective in the pair (userId, time)
JobId(userId, t) == <<userId, t>>

JobIds == Users \X Times

\* ScrobbleJobData (the fields processScrobbleJob reads); userId is held in
\* the job record
JobData(type, season, episode, anilistToken, anilistId, malId) ==
    [type |-> type, season |-> season, episode |-> episode,
     anilistToken |-> anilistToken, anilistId |-> anilistId, malId |-> malId]

NoData == JobData("none", Undef, Undef, NoToken, Undef, Undef)

AllData ==
    { JobData(ty, se, ep, tok, aid, mal) :
        ty \in {"movie", "episode", "anime", "show"}, se \in {Undef, 1}, ep \in {Undef, 1},
        tok \in {NoToken, "", "tok"}, aid \in {Undef, 0, 1}, mal \in {Undef, 0, 1} }

\* the job data the queue specification schedules: a movie, and an anime
\* episode with a secondary credential and a MAL id to look up
MovieData == JobData("movie", Undef, Undef, NoToken, Undef, Undef)
AnimeData == JobData("anime", Undef, 1, "tok", Undef, 1)
QueueData == {MovieData}

NoRec == [st |-> "none", user |-> "none", fireAt |-> 0, data |-> NoData, inst |-> 0]

IdleCall ==
    [op |-> "none", user |-> "none", pc |-> "idle", data |-> NoData, delay |-> 0,
     existing |-> NoJob, jobId |-> NoJob, ts |-> 0, preds |-> {}]

IdleExec ==
    [pc |-> "idle", simklSuccess |-> FALSE, anilistSuccess |-> TRUE,
     actualAnilistId |-> Undef, primary |-> "none", searched |-> 0,
     searchResult |-> Undef, updated |-> 0]

Pending(st) == st = "delayed" \/ st = "waiting"

\* a call is over when scheduleScrobble returned ("done") or rejected
\* ("threw"), or when a direct cancelPendingScrobble returned true
\* ("cancelled") or false ("nothing")
Over(c) == calls[c].pc \in {"done", "threw", "cancelled", "nothing"}

InFlight(c) == calls[c].pc /= "idle" /\ ~Over(c)

\* the jobs (by adding call) of user u that are pending in the store
PendingOf(u) ==
    { id \in JobIds : store[id].user = u /\ Pending(store[id].st) }

ActiveJobs == { id \in JobIds : store[id].st = "active" }

----------------------------------------------------------------------------
(* The registry: userJobIds *)

\* (variant: clears the whole map instead of one key)
RegDeleteAll(reg, u) == [x \in Users |-> NoJob]
\* userJobIds.delete(userId)
RegDelete(reg, u) == [reg EXCEPT ![u] = NoJob]

\* userJobIds.set(userId, jobId)
RegSet(reg, u, id) == [reg EXCEPT ![u] = id]

----------------------------------------------------------------------------
(* Text and numbers of the subtitles handler.  A text is a tuple of         *)
(* one-character strings; a number is a record that is NaN, undefined or    *)
(* holds an integer.  A fraction (the threshold) is held in millionths.     *)

Micro == 1000000

Num(v) == [k |-> "number", v |-> v]
NaN    == [k |-> "NaN", v |-> 0]
Absent == [k |-> "undefined", v |-> 0]
IsNaN(x) == x.k = "NaN"

\* an optional text that is undefined
Unset == <<"undefined">>

\* JavaScript truthiness of an optional text (undefined and "" are falsy)
TruthyText(t) == t /= Unset /\ t /= <<>>

Digit ==
    [ch \in {"0", "1", "2", "3", "4", "5", "6", "7", "8", "9"} |->
        CASE ch = "0" -> 0 [] ch = "1" -> 1 [] ch = "2" -> 2 [] ch = "3" -> 3
          [] ch = "4" -> 4 [] ch = "5" -> 5 [] ch = "6" -> 6 [] ch = "7" -> 7
          [] ch = "8" -> 8 [] ch = "9" -> 9]

IsDigit(ch) == ch \in DOMAIN Digit

\* the number of leading blanks of s from position i on
RECURSIVE Blanks(_, _)
Blanks(s, i) == IF i <= Len(s) /\ s[i] = " " THEN 1 + Blanks(s, i + 1) ELSE 0

\* the number of consecutive digits of s from position i on
RECURSIVE DigitRun(_, _)
DigitRun(s, i) == IF i <= Len(s) /\ IsDigit(s[i]) THEN 1 + DigitRun(s, i + 1) ELSE 0

\* the value of the n digits of s that begin at position i
RECURSIVE Decimal(_, _, _)
Decimal(s, i, n) ==
    IF n = 0 THEN 0 ELSE 10 * Decimal(s, i, n - 1) + Digit[s[i + n - 1]]

RECURSIVE Pow10(_)
Pow10(k) == IF k = 0 THEN 1 ELSE 10 * Pow10(k - 1)

\* where the digits begin once blanks and a sign are skipped, and the sign
SignAt(s, i) == IF i <= Len(s) /\ s[i] = "-" THEN -1 ELSE 1
AfterSign(s, i) == IF i <= Len(s) /\ s[i] \in {"-", "+"} THEN i + 1 ELSE i

\* parseInt(s, 10): blanks, a sign, then the longest run of digits; NaN
\* without a digit
parseInt(s) ==
    LET i0 == 1 + Blanks(s, 1)
        i1 == AfterSign(s, i0)
        n  == DigitRun(s, i1)
    IN  IF n = 0 THEN NaN ELSE Num(SignAt(s, i0) * Decimal(s, i1, n))

\* parseFloat(s), in millionths: blanks, a sign, digits, and a point with
\* digits; NaN without a digit.  Digits past the sixth decimal are dropped;
\* the texts of this model hold no exponent and no "Infinity".
parseFloat(s) ==
    LET i0 == 1 + Blanks(s, 1)
        i1 == AfterSign(s, i0)
        n1 == DigitRun(s, i1)
        dot == i1 + n1 <= Len(s) /\ s[i1 + n1] = "."
        n2 == IF dot THEN DigitRun(s, i1 + n1 + 1) ELSE 0
        k  == IF n2 > 6 THEN 6 ELSE n2
    IN  IF n1 + n2 = 0 THEN NaN
        ELSE Num(SignAt(s, i0) *
                 (Decimal(s, i1, n1) * Micro
                    + Decimal(s, i1 + n1 + 1, k) * Pow10(6 - k)))

\* Math.min and Math.max: NaN when either argument is NaN
MathMin(a, b) == IF IsNaN(a) \/ IsNaN(b) THEN NaN ELSE IF a.v <= b.v THEN a ELSE b
MathMax(a, b) == IF IsNaN(a) \/ IsNaN(b) THEN NaN ELSE IF a.v >= b.v THEN a ELSE b

\* s.startsWith(p)
StartsWith(s, p) == Len(s) >= Len(p) /\ SubSeq(s, 1, Len(p)) = p

\* s.split(':'): the pieces between the colons
RECURSIVE Split(_)
Split(s) ==
    LET cut == { i \in 1..Len(s) : s[i] = ":" }
    IN  IF cut = {} THEN <<s>>
        ELSE LET i == CHOOSE j \in cut : \A m \in cut : j <= m
             IN  <<SubSeq(s, 1, i - 1)>> \o Split(SubSeq(s, i + 1, Len(s)))

\* an optional number as a job data field
NotANumber == -3
Field(x) == IF x = Absent THEN Undef ELSE IF IsNaN(x) THEN NotANumber ELSE x.v

----------------------------------------------------------------------------
(* The subtitles handler (part_001:92-188) and what it calls *)

MINIMUM_RUNTIME_MINUTES == 5

NoUser == ""                         \* config.token undefined or empty

\* parseStremioId (part_001:36-65)
parseStremioId(id) ==
    LET parts == Split(id) IN
    IF StartsWith(id, <<"k", "i", "t", "s", "u", ":">>)
    THEN [imdbId |-> Unset, kitsuId |-> parts[2], season |-> Absent,
          episode |-> IF Len(parts) >= 3 THEN parseInt(parts[3]) ELSE Absent,
          isAnime |-> TRUE]
    ELSE IF Len(parts) = 3
    THEN [imdbId |-> parts[1], kitsuId |-> Unset, season |-> parseInt(parts[2]),
          episode |-> parseInt(parts[3]), isAnime |-> FALSE]
    ELSE [imdbId |-> parts[1], kitsuId |-> Unset, season |-> Absent,
          episode |-> Absent, isAnime |-> FALSE]

\* getThreshold (part_001:70-73), in millionths
DefaultThreshold == <<"0", ".", "8">>
getThreshold(text, env) ==
    LET threshold == parseFloat(IF TruthyText(text) THEN text
                                ELSE IF TruthyText(env) THEN env
                                ELSE DefaultThreshold)
    IN  MathMax(Num(Micro \div 10), MathMin(Num(Micro), threshold))

\* isTypeEnabled (part_001:78-84)
isTypeEnabled(config, contentType) ==
    IF contentType = "movie" THEN config.movies /= "0"
    ELSE IF contentType = "series" THEN config.shows /= "0"
    ELSE IF contentType = "anime" THEN config.anime /= "0"
    ELSE TRUE

\* what Simkl answers to /search/id: an error, nothing, or a first item
NoLookup == [found |-> FALSE, runtime |-> 0, type |-> "none", mal |-> Undef]

\* defaultRuntimes (simkl.ts:114-118, 122)
DefaultRuntime(type) ==
    CASE type = "movie" -> 90 [] type = "show" -> 45 [] type = "anime" -> 25
      [] OTHER -> 45

\* lookupByImdb (simkl.ts:90-125): null, or the item with a runtime
lookupByImdb(answer) ==
    IF answer.status /= "item" THEN NoLookup
    ELSE [found |-> TRUE,
          runtime |-> IF TruthyNum(answer.runtime) THEN answer.runtime
                      ELSE DefaultRuntime(answer.type),
          type |-> answer.type, mal |-> Undef]

\* lookupByKitsu (simkl.ts:238-269)
\* (variant: without a record the defaults are returned)
lookupByKitsuDefaults(answer) ==
    [found |-> TRUE,
     runtime |-> IF answer.status = "item" /\ TruthyNum(answer.runtime)
                 THEN answer.runtime ELSE 24,
     type |-> "anime", mal |-> answer.mal]
lookupByKitsu(answer) ==
    IF answer.status /= "item" THEN NoLookup
    ELSE [found |-> TRUE,
          runtime |-> IF TruthyNum(answer.runtime) THEN answer.runtime ELSE 24,
          type |-> "anime", mal |-> answer.mal]

\* Math.floor(runtime * 60 * 1000 * threshold) (part_001:154).  The
\* threshold is in millionths; the factor 10000 of 60 * 1000 is cancelled
\* against the millionths to keep the product small.
DelayMs(runtime, threshold) ==
    IF IsNaN(threshold) THEN NaN
    ELSE Num((runtime * 6 * threshold.v) \div (Micro \div 10000))

\* the job type (part_001:160-167)
JobType(type, parsed, mediaType) ==
    IF parsed.isAnime \/ mediaType = "anime" THEN "anime"
    ELSE IF type = "series" /\ parsed.season /= Absent /\ parsed.episode /= Absent
    THEN "episode"
    ELSE "movie"

\* the job data (part_001:170-181); the handler sets no anilistId
HandlerJobData(r, jobType, parsed, lookup) ==
    JobData(jobType,
            IF jobType = "episode" THEN Field(parsed.season) ELSE Undef,
            IF jobType \in {"episode", "anime"} THEN Field(parsed.episode) ELSE Undef,
            r.anilistToken, Undef, lookup.mal)

\* what the handler was given: the request's type and id, whether the
\* configuration has a token, whether it decrypts, which content types it
\* enables, and what Simkl answered
Seen(r) ==
    [hasToken |-> r.token /= NoUser, decrypts |-> r.decrypts, status |-> r.answer.status,
     type |-> r.type, id |-> r.id, movies |-> r.movies, shows |-> r.shows,
     anime |-> r.anime, mediaType |-> r.answer.type]
NoSeen ==
    [hasToken |-> FALSE, decrypts |-> FALSE, status |-> "none",
     type |-> "none", id |-> <<>>, movies |-> "none", shows |-> "none",
     anime |-> "none", mediaType |-> "none"]

NoPlan ==
    [outcome |-> "none", runtime |-> 0, text |-> Unset, env |-> Unset,
     threshold |-> NaN, delayMs |-> NaN, anilistEnabled |-> "none", data |-> NoData,
     seen |-> NoSeen]

\* the minimum runtime check (part_001:147)
\* (variant: the check is left out)
TooShortNever(runtime) == FALSE
TooShort(runtime) == runtime < MINIMUM_RUNTIME_MINUTES

\* the handler up to its return or its call of scheduleScrobble
\* (part_001:92-184): the checks in their order, then the plan
HandlerPlan(r) ==
    LET contentType == IF r.type = "movie" THEN "movie"
                       ELSE IF r.type = "anime" THEN "anime" ELSE "series"
        parsed   == parseStremioId(r.id)
        useKitsu == parsed.isAnime /\ TruthyText(parsed.kitsuId)
        useImdb  == TruthyText(parsed.imdbId) /\ StartsWith(parsed.imdbId, <<"t", "t">>)
        lookup   == IF useKitsu THEN lookupByKitsu(r.answer) ELSE lookupByImdb(r.answer)
        threshold == getThreshold(r.threshold, r.env)
        jobType  == JobType(r.type, parsed, lookup.type)
        stop(o)  == [NoPlan EXCEPT !.outcome = o, !.seen = Seen(r)]
    IN  IF r.token = NoUser THEN stop("noToken")
        ELSE IF ~isTypeEnabled(r, contentType) THEN stop("disabled")
        ELSE IF ~r.decrypts THEN stop("decryptFailed")
        ELSE IF ~useKitsu /\ ~useImdb THEN stop("invalidId")
        ELSE IF r.answer.status = "error" THEN stop("rejected")
        ELSE IF ~lookup.found THEN stop("notFound")
        ELSE IF TooShort(lookup.runtime)
        THEN [NoPlan EXCEPT !.outcome = "tooShort", !.runtime = lookup.runtime,
                            !.seen = Seen(r)]
        ELSE [outcome |-> "scheduled", runtime |-> lookup.runtime,
              text |-> r.threshold, env |-> r.env, threshold |-> threshold,
              delayMs |-> DelayMs(lookup.runtime, threshold),
              anilistEnabled |-> r.anilistEnabled,
              data |-> HandlerJobData(r, jobType, parsed, lookup),
              seen |-> Seen(r)]

----------------------------------------------------------------------------
Init ==
    /\ now = 0
    /\ worker = FALSE
    /\ workers = 0
    /\ registry = [u \in Users |-> NoJob]
    /\ store = [id \in JobIds |-> NoRec]
    /\ calls = [c \in CallIds |-> IdleCall]
    /\ exec = [id \in JobIds |-> IdleExec]
    /\ ran = [c \in CallIds |-> 0]
    /\ superseded = {}
    /\ early = [u \in Users |-> FALSE]
    /\ plan = [c \in CallIds |-> NoPlan]

----------------------------------------------------------------------------
(* scheduleScrobble and cancelPendingScrobble *)

\* cancelPendingScrobble returns `result` to its caller (queue.ts:82-83 and
\* 88-89): the registry entry of the user is deleted on both paths.  A
\* cancelPendingScrobble call is done; a scheduleScrobble call goes on, in the
\* same turn of the event loop, to build the job id from Date.now() and to
\* issue scrobbleQueue.add (queue.ts:52-58).
\* (variant: the entry is left in the registry)
CancelReturnsKeepsEntry(c, result) ==
    LET u == calls[c].user IN
    /\ registry' = registry
    /\ calls' = [calls EXCEPT ![c] =
                   IF @.op = "cancel"
                   THEN [@ EXCEPT !.pc = IF result THEN "cancelled" ELSE "nothing",
                                  !.existing = NoJob]
                   ELSE [@ EXCEPT !.pc = "add", !.existing = NoJob,
                                  !.jobId = JobId(u, now), !.ts = now]]
CancelReturns(c, result) ==
    LET u == calls[c].user IN
    /\ registry' = RegDelete(registry, u)
    /\ calls' = [calls EXCEPT ![c] =
                   IF @.op = "cancel"
                   THEN [@ EXCEPT !.pc = IF result THEN "cancelled" ELSE "nothing",
                                  !.existing = NoJob]
                   ELSE [@ EXCEPT !.pc = "add", !.existing = NoJob,
                                  !.jobId = JobId(u, now), !.ts = now]]

\* A call begins: userJobIds.get(userId) (queue.ts:71).  Without an entry the
\* cancellation returns false at once; with one, getJob is issued.
\* The handler serves requests only after initScrobbleWorker ran
\* (part_001:367 before part_001:785).
\* (variant: the call does not cancel the recorded job first)
BeginCallNoCancel(c, op, u, d, dl) ==
    /\ worker
    /\ calls[c].pc = "idle"
    /\ \A p \in CallIds : p < c => calls[p].pc /= "idle"
    /\ now + dl <= MaxClock
    /\ registry' = registry
    /\ calls' = [calls EXCEPT ![c] =
                   [IdleCall EXCEPT !.op = op, !.user = u, !.data = d, !.delay = dl,
                                    !.preds = { p \in CallIds : Over(p) },
                                    !.pc = "add", !.jobId = JobId(u, now), !.ts = now]]
    /\ early' = early
    /\ UNCHANGED <<now, worker, workers, store, exec, ran, superseded>>
BeginCall(c, op, u, d, dl) ==
    /\ worker
    /\ calls[c].pc = "idle"
    /\ \A p \in CallIds : p < c => calls[p].pc /= "idle"
    /\ now + dl <= MaxClock
    /\ LET started == [IdleCall EXCEPT !.op = op, !.user = u, !.data = d, !.delay = dl,
                                      !.existing = registry[u],
                                      !.preds = { p \in CallIds : Over(p) }]
       IN IF registry[u] = NoJob
          THEN /\ registry' = RegDelete(registry, u)
               /\ calls' = [calls EXCEPT ![c] =
                              IF op = "cancel"
                              THEN [started EXCEPT !.pc = "nothing"]
                              ELSE [started EXCEPT !.pc = "add",
                                                   !.jobId = JobId(u, now), !.ts = now]]
          ELSE /\ registry' = registry
               /\ calls' = [calls EXCEPT ![c] = [started EXCEPT !.pc = "getJob"]]
    /\ early' = [early EXCEPT ![u] =
                   @ \/ \E p \in CallIds : calls[p].user = u /\ ran[p] > 0]
    /\ UNCHANGED <<now, worker, workers, store, exec, ran, superseded>>

\* a call made with given job data and delay
Begin(c, op, u, d, dl) == BeginCall(c, op, u, d, dl) /\ UNCHANGED plan

\* the delay of a job in ticks of the model's clock: a positive delay takes
\* some ticks, no delay none; with a NaN delay the store may take the job as
\* delayed or as due at once
DelayTicks(delayMs) ==
    IF IsNaN(delayMs) THEN Delays \cup {0}
    ELSE IF delayMs.v > 0 THEN Delays ELSE {0}

\* the subtitles handler serves request r (part_001:92-188): it returns
\* without scheduling, or calls scheduleScrobble(config.token, jobData,
\* delayMs), which runs to its first await
Subtitles(c, r) ==
    LET p == HandlerPlan(r) IN
    /\ worker
    /\ calls[c].pc = "idle"
    /\ \A q \in CallIds : q < c => calls[q].pc /= "idle"
    /\ plan' = [plan EXCEPT ![c] = p]
    /\ IF p.outcome = "scheduled"
       THEN \E dl \in DelayTicks(p.delayMs) : BeginCall(c, "schedule", r.token, p.data, dl)
       ELSE UNCHANGED <<now, worker, workers, registry, store, calls, exec, ran, superseded, early>>

\* scrobbleQueue.getJob(existingJobId) lands on the store (queue.ts:74-76)
GetJob(c) ==
    /\ calls[c].pc = "getJob"
    /\ calls' = [calls EXCEPT ![c].pc =
                   IF store[calls[c].existing].st /= "none" THEN "getState" ELSE "miss"]
    /\ UNCHANGED <<now, worker, workers, registry, store, exec, ran, superseded, early, plan>>

\* job.getState() lands on the store (queue.ts:77-79)
GetState(c) ==
    /\ calls[c].pc = "getState"
    /\ calls' = [calls EXCEPT ![c].pc =
                   IF Pending(store[calls[c].existing].st) THEN "remove" ELSE "miss"]
    /\ UNCHANGED <<now, worker, workers, registry, store, exec, ran, superseded, early, plan>>

\* job.remove() lands on the store (queue.ts:80).  BullMQ refuses to remove a
\* job that a worker holds (it is active): remove() rejects and so does the
\* call.  A job that is gone by now is removed silently.
\* (variant: the removal is not carried out)
RemoveSkipped(c) ==
    /\ calls[c].pc = "remove"
    /\ calls' = [calls EXCEPT ![c].pc = "removed"]
    /\ UNCHANGED <<now, worker, workers, registry, store, exec, ran, superseded, early, plan>>
Remove(c) ==
    /\ calls[c].pc = "remove"
    /\ IF store[calls[c].existing].st = "active"
       THEN /\ calls' = [calls EXCEPT ![c].pc = "threw", ![c].existing = NoJob]
            /\ store' = store
       ELSE /\ calls' = [calls EXCEPT ![c].pc = "removed"]
            /\ store' = [store EXCEPT ![calls[c].existing] = NoRec]
    /\ UNCHANGED <<now, worker, workers, registry, exec, ran, superseded, early, plan>>

\* after the removal: userJobIds.delete, return true (queue.ts:81-83)
CancelHit(c) ==
    /\ calls[c].pc = "removed"
    /\ CancelReturns(c, TRUE)
    /\ UNCHANGED <<now, worker, workers, store, exec, ran, superseded, early, plan>>

\* no job, or a job that is not pending: userJobIds.delete, return false
\* (queue.ts:88-89)
\* (variant: the entry is deleted only after a removal)
CancelMissKeepsEntry(c) ==
    /\ calls[c].pc = "miss"
    /\ CancelReturnsKeepsEntry(c, FALSE)
    /\ UNCHANGED <<now, worker, workers, store, exec, ran, superseded, early, plan>>
CancelMiss(c) ==
    /\ calls[c].pc = "miss"
    /\ CancelReturns(c, FALSE)
    /\ UNCHANGED <<now, worker, workers, store, exec, ran, superseded, early, plan>>

\* the job record scrobbleQueue.add writes: its delay counts from the
\* timestamp taken when add was called
NewJob(c) ==
    [st |-> IF calls[c].delay = 0 THEN "waiting" ELSE "delayed",
     user |-> calls[c].user, fireAt |-> calls[c].ts + calls[c].delay,
     data |-> calls[c].data, inst |-> c]

\* scrobbleQueue.add lands on the store (queue.ts:55-58).  BullMQ ignores an
\* add whose jobId is already in the store.
Add(c) ==
    /\ calls[c].pc = "add"
    /\ calls' = [calls EXCEPT ![c].pc = "added"]
    /\ store' = IF store[calls[c].jobId].st = "none"
                THEN [store EXCEPT ![calls[c].jobId] = NewJob(c)]
                ELSE store
    /\ UNCHANGED <<now, worker, workers, registry, exec, ran, superseded, early, plan>>

\* after the add: userJobIds.set(userId, jobId) and return (queue.ts:61-64)
SetRegistry(c) ==
    /\ calls[c].pc = "added"
    /\ registry' = RegSet(registry, calls[c].user, calls[c].jobId)
    /\ calls' = [calls EXCEPT ![c].pc = "done"]
    /\ superseded' = superseded \cup
         { store[id].inst : id \in
             { j \in PendingOf(calls[c].user) :
                 store[j].inst /= c /\ store[j].inst \in calls[c].preds } }
    /\ UNCHANGED <<now, worker, workers, store, exec, ran, early, plan>>

\* a request to the store fails (the store is unavailable): the await rejects
\* and the call rejects with it; nothing is caught (queue.ts:49, 55, 74-80)
\* (variant: a failed add still records the new id)
StoreFailsRecordsId(c) ==
    /\ calls[c].pc \in {"getJob", "getState", "remove", "add"}
    /\ calls' = [calls EXCEPT ![c].pc = "threw", ![c].existing = NoJob]
    /\ registry' = IF calls[c].pc = "add"
                   THEN RegSet(registry, calls[c].user, calls[c].jobId)
                   ELSE registry
    /\ UNCHANGED <<now, worker, workers, store, exec, ran, superseded, early, plan>>
StoreFails(c) ==
    /\ calls[c].pc \in {"getJob", "getState", "remove", "add"}
    /\ calls' = [calls EXCEPT ![c].pc = "threw", ![c].existing = NoJob]
    /\ UNCHANGED <<now, worker, workers, registry, store, exec, ran, superseded, early, plan>>

----------------------------------------------------------------------------
(* The clock and the worker *)

\* time passes.  The clock stops at MaxClock, and does not run past the point
\* where a call that has yet to read Date.now() could no longer fire in time.
Tick ==
    /\ now < MaxClock
    /\ \A c \in CallIds :
         (calls[c].op = "schedule" /\ calls[c].pc \in {"getJob", "getState", "remove", "removed", "miss"})
            => now + 1 + calls[c].delay <= MaxClock
    /\ now' = now + 1
    /\ UNCHANGED <<worker, workers, registry, store, calls, exec, ran, superseded, early, plan>>

\* initScrobbleWorker (queue.ts:158-188): a Worker is built and its callbacks
\* are registered unless one exists; a second call only warns
\* (variant: a Worker is built on every call)
initScrobbleWorkerAlways ==
    /\ worker' = TRUE
    /\ workers' = workers + 1
    /\ UNCHANGED <<now, registry, store, calls, exec, ran, superseded, early, plan>>
initScrobbleWorker ==
    /\ worker' = TRUE
    /\ workers' = IF worker THEN workers ELSE workers + 1
    /\ UNCHANGED <<now, registry, store, calls, exec, ran, superseded, early, plan>>

\* the store moves a delayed job whose delay has elapsed to the wait list
DuePromote(id) == store[id].st = "delayed" /\ now >= store[id].fireAt

Promote(id) ==
    /\ DuePromote(id)
    /\ store' = [store EXCEPT ![id].st = "waiting"]
    /\ UNCHANGED <<now, worker, workers, registry, calls, exec, ran, superseded, early, plan>>

\* what processScrobbleJob does once it holds simklSuccess and, for anime, has
\* finished the AniList part (queue.ts:142-149): throw when Simkl failed,
\* return otherwise
\* (variants: the job fails only when both services failed; the job fails
\* when either service failed)
OutcomeEither(e) ==
    [e EXCEPT !.pc = IF e.simklSuccess \/ e.anilistSuccess THEN "returned" ELSE "rejected"]
OutcomeBoth(e) ==
    [e EXCEPT !.pc = IF e.simklSuccess /\ e.anilistSuccess THEN "returned" ELSE "rejected"]
Outcome(e) == [e EXCEPT !.pc = IF e.simklSuccess THEN "returned" ELSE "rejected"]

\* queue.ts:130-135: with an AniList id, call updateAnimeProgress; without
\* one, skip AniList and keep anilistSuccess = true
\* (variant: an unresolved AniList id fails the job)
UpdateOrFail(e) ==
    IF TruthyNum(e.actualAnilistId)
    THEN [e EXCEPT !.pc = "update", !.updated = @ + 1]
    ELSE [e EXCEPT !.anilistSuccess = FALSE, !.pc = "rejected"]
UpdateOrSkip(e) ==
    IF TruthyNum(e.actualAnilistId)
    THEN [e EXCEPT !.pc = "update", !.updated = @ + 1]
    ELSE Outcome([e EXCEPT !.anilistSuccess = TRUE])

\* queue.ts:113-136, entered after scrobbleAnime returned: the AniList part
\* (variant: the lookup by MAL id is made whenever there is a MAL id)
AniListPartAlwaysSearches(d, e) ==
    IF TruthyStr(d.anilistToken)
    THEN LET e1 == [e EXCEPT !.actualAnilistId = d.anilistId] IN
         IF TruthyNum(d.malId)
         THEN [e1 EXCEPT !.pc = "search", !.searched = @ + 1]
         ELSE UpdateOrSkip(e1)
    ELSE Outcome(e)
AniListPart(d, e) ==
    IF TruthyStr(d.anilistToken)
    THEN LET e1 == [e EXCEPT !.actualAnilistId = d.anilistId] IN
         IF ~TruthyNum(e1.actualAnilistId) /\ TruthyNum(d.malId)
         THEN [e1 EXCEPT !.pc = "search", !.searched = @ + 1]
         ELSE UpdateOrSkip(e1)
    ELSE Outcome(e)

\* queue.ts:105-110 and 137-140: which Simkl call the job data selects;
\* "invalid" is the branch that logs and returns
\* (variant: the type alone selects the call)
PrimaryCallByTypeOnly(d) ==
    IF d.type = "movie" THEN "scrobbleMovie"
    ELSE IF d.type = "episode" THEN "scrobbleEpisode"
    ELSE IF d.type = "anime" THEN "scrobbleAnime"
    ELSE "invalid"
PrimaryCall(d) ==
    IF d.type = "movie" THEN "scrobbleMovie"
    ELSE IF d.type = "episode" /\ d.season /= Undef /\ d.episode /= Undef THEN "scrobbleEpisode"
    ELSE IF d.type = "anime" /\ d.episode /= Undef THEN "scrobbleAnime"
    ELSE "invalid"

\* a worker takes a waiting job (each at most `concurrency` at a time) and calls
\* processScrobbleJob, which runs to its first await (queue.ts:96-110) or
\* returns at once on invalid data (queue.ts:137-140)
\* (variant: the worker takes every waiting job, whatever it already runs)
ExecStartUnbounded(id) ==
    /\ worker
    /\ store[id].st = "waiting"
    /\ store' = [store EXCEPT ![id].st = "active"]
    /\ exec' = [exec EXCEPT ![id] =
                  [IdleExec EXCEPT !.pc = IF PrimaryCall(store[id].data) = "invalid"
                                   THEN "returned" ELSE "primary"]]
    /\ ran' = [ran EXCEPT ![store[id].inst] = @ + 1]
    /\ early' = [early EXCEPT ![store[id].user] =
                   @ \/ \E c \in CallIds : calls[c].user = store[id].user /\ InFlight(c)]
    /\ UNCHANGED <<now, worker, workers, registry, calls, superseded, plan>>
\* (variant: an anime job with an AniList token begins with the AniList part)
ExecStartSecondaryFirst(id) ==
    /\ worker
    /\ store[id].st = "waiting"
    /\ Cardinality(ActiveJobs) < Concurrency * workers
    /\ store' = [store EXCEPT ![id].st = "active"]
    /\ exec' = [exec EXCEPT ![id] =
                  IF PrimaryCall(store[id].data) = "invalid"
                  THEN [IdleExec EXCEPT !.pc = "returned"]
                  ELSE IF store[id].data.type = "anime" /\ TruthyStr(store[id].data.anilistToken)
                  THEN AniListPart(store[id].data, IdleExec)
                  ELSE [IdleExec EXCEPT !.pc = "primary"]]
    /\ ran' = [ran EXCEPT ![store[id].inst] = @ + 1]
    /\ early' = [early EXCEPT ![store[id].user] =
                   @ \/ \E c \in CallIds : calls[c].user = store[id].user /\ InFlight(c)]
    /\ UNCHANGED <<now, worker, workers, registry, calls, superseded, plan>>
ExecStart(id) ==
    /\ worker
    /\ store[id].st = "waiting"
    /\ Cardinality(ActiveJobs) < Concurrency * workers
    /\ store' = [store EXCEPT ![id].st = "active"]
    /\ exec' = [exec EXCEPT ![id] =
                  [IdleExec EXCEPT !.pc = IF PrimaryCall(store[id].data) = "invalid"
                                   THEN "returned" ELSE "primary"]]
    /\ ran' = [ran EXCEPT ![store[id].inst] = @ + 1]
    /\ early' = [early EXCEPT ![store[id].user] =
                   @ \/ \E c \in CallIds : calls[c].user = store[id].user /\ InFlight(c)]
    /\ UNCHANGED <<now, worker, workers, registry, calls, superseded, plan>>

\* the Simkl call answers: true, false (a non-ok response, simkl.ts:180-184,
\* 224-228, 327-331) or a rejected fetch, which processScrobbleJob does not catch
\* (variant: the AniList part follows the Simkl call of every content type)
PrimaryReturnsAllTypes(id, outcome) ==
    /\ exec[id].pc = "primary"
    /\ LET d  == store[id].data
           e1 == [exec[id] EXCEPT !.primary = outcome, !.simklSuccess = (outcome = "ok")]
       IN exec' = [exec EXCEPT ![id] =
                     IF outcome = "throw" THEN [e1 EXCEPT !.pc = "rejected"]
                     ELSE AniListPart(d, e1)]
    /\ UNCHANGED <<now, worker, workers, registry, store, calls, ran, superseded, early, plan>>
PrimaryReturns(id, outcome) ==
    /\ exec[id].pc = "primary"
    /\ LET d  == store[id].data
           e1 == [exec[id] EXCEPT !.primary = outcome, !.simklSuccess = (outcome = "ok")]
       IN exec' = [exec EXCEPT ![id] =
                     IF outcome = "throw" THEN [e1 EXCEPT !.pc = "rejected"]
                     ELSE IF d.type = "anime" THEN AniListPart(d, e1)
                     ELSE Outcome(e1)]
    /\ UNCHANGED <<now, worker, workers, registry, store, calls, ran, superseded, early, plan>>

\* searchAnimeByMalId answers (anilist.ts:129-158): an id, or null when nothing
\* was found or the request failed (queue.ts:123-128)
SearchReturns(id, result) ==
    /\ exec[id].pc = "search"
    /\ exec' = [exec EXCEPT ![id] =
                  UpdateOrSkip(IF result /= Null
                               THEN [@ EXCEPT !.searchResult = result,
                                              !.actualAnilistId = result]
                               ELSE [@ EXCEPT !.searchResult = result])]
    /\ UNCHANGED <<now, worker, workers, registry, store, calls, ran, superseded, early, plan>>

\* updateAnimeProgress answers (anilist.ts:164-199): true, or false when the
\* mutation failed or the request errored (queue.ts:131)
UpdateReturns(id, ok) ==
    /\ exec[id].pc = "update"
    /\ exec' = [exec EXCEPT ![id] = Outcome([@ EXCEPT !.anilistSuccess = ok])]
    /\ UNCHANGED <<now, worker, workers, registry, store, calls, ran, superseded, early, plan>>

\* the worker records the outcome in the store: completed when
\* processScrobbleJob returned, failed when it threw (no retry is configured,
\* queue.ts:28-34 and 55-58)
\* (variant: a job that threw is put back on the wait list)
FinishRetries(id) ==
    /\ exec[id].pc \in {"returned", "rejected"}
    /\ store[id].st = "active"
    /\ store' = [store EXCEPT ![id].st =
                   IF exec[id].pc = "returned" THEN "completed" ELSE "waiting"]
    /\ exec' = [exec EXCEPT ![id] =
                  IF exec[id].pc = "returned" THEN [@ EXCEPT !.pc = "emit"] ELSE IdleExec]
    /\ UNCHANGED <<now, worker, workers, registry, calls, ran, superseded, early, plan>>
Finish(id) ==
    /\ exec[id].pc \in {"returned", "rejected"}
    /\ store[id].st = "active"
    /\ store' = [store EXCEPT ![id].st =
                   IF exec[id].pc = "returned" THEN "completed" ELSE "failed"]
    /\ exec' = [exec EXCEPT ![id].pc = "emit"]
    /\ UNCHANGED <<now, worker, workers, registry, calls, ran, superseded, early, plan>>

\* the worker's 'completed' / 'failed' callback (queue.ts:173-185):
\* userJobIds.delete(job.data.userId); the execution is over.  The callback
\* holds the job object, whose user is the one its id was built from, also
\* when the job has been removed from the store meanwhile.
\* (variant: the callback leaves the registry alone)
CallbackKeeps(id) ==
    /\ exec[id].pc = "emit"
    /\ exec' = [exec EXCEPT ![id] = IdleExec]
    /\ UNCHANGED <<now, worker, workers, registry, store, calls, ran, superseded, early, plan>>
Callback(id) ==
    /\ exec[id].pc = "emit"
    /\ registry' = RegDelete(registry, id[1])
    /\ exec' = [exec EXCEPT ![id] = IdleExec]
    /\ UNCHANGED <<now, worker, workers, store, calls, ran, superseded, early, plan>>

----------------------------------------------------------------------------
PrimaryOutcomes == {"ok", "fail", "throw"}
SearchResults   == {Null, 0, 1}

WorkerNext ==
    \E id \in JobIds :
        \/ Promote(id)
        \/ ExecStart(id)
        \/ \E o \in PrimaryOutcomes : PrimaryReturns(id, o)
        \/ Finish(id)
        \/ Callback(id)

\* the steps of the scheduleScrobble calls made for the users in U
CallNextFor(U) ==
    \E c \in CallIds :
        \/ \E u \in U, d \in QueueData, dl \in Delays : Begin(c, "schedule", u, d, dl)
        \/ GetJob(c)
        \/ GetState(c)
        \/ Remove(c)
        \/ CancelHit(c)
        \/ CancelMiss(c)
        \/ Add(c)
        \/ SetRegistry(c)
        \/ StoreFails(c)

CallNext == CallNextFor(Users)

Next == initScrobbleWorker \/ Tick \/ CallNext \/ WorkerNext

Spec == Init /\ [][Next]_vars

----------------------------------------------------------------------------
(* The calls of one user, with the scheduling the store and the worker      *)
(* guarantee: time passes, a due job is moved to the wait list, and a       *)
(* waiting job is taken by the worker when a slot is free.                  *)

LiveNext == initScrobbleWorker \/ Tick \/ CallNextFor({"u1"}) \/ WorkerNext

Fairness ==
    /\ WF_vars(Tick)
    /\ \A id \in JobIds : WF_vars(Promote(id)) /\ WF_vars(ExecStart(id))

FairSpec == Init /\ [][LiveNext]_vars /\ Fairness

----------------------------------------------------------------------------
(* The executor over every job data: one scheduleScrobble call of one user  *)
(* with any ScrobbleJobData, then the worker.                               *)

ExecNext ==
    \/ initScrobbleWorker
    \/ Tick
    \/ \E d \in AllData : Begin(1, "schedule", "u1", d, 1)
    \/ Add(1)
    \/ SetRegistry(1)
    \/ StoreFails(1)
    \/ \E id \in JobIds :
        \/ Promote(id)
        \/ ExecStart(id)
        \/ \E o \in PrimaryOutcomes : PrimaryReturns(id, o)
        \/ \E r \in SearchResults : SearchReturns(id, r)
        \/ \E b \in BOOLEAN : UpdateReturns(id, b)
        \/ Finish(id)
        \/ Callback(id)

SpecExec == Init /\ [][ExecNext]_vars

\* the same with the scheduling the process itself guarantees: time passes,
\* the store promotes a due job, the worker takes a waiting job, records the
\* outcome of an execution that returned or threw, and runs its callback.
\* Nothing makes a remote service answer: the requests of simkl.ts and
\* anilist.ts are sent by fetch without a timeout.
WorkerFairness ==
    /\ WF_vars(Tick)
    /\ \A id \in JobIds :
          /\ WF_vars(Promote(id)) /\ WF_vars(ExecStart(id))
          /\ WF_vars(Finish(id)) /\ WF_vars(Callback(id))

SpecExecFair == Init /\ [][ExecNext]_vars /\ WorkerFairness

----------------------------------------------------------------------------
(* Requests to the subtitles handler *)

MaxText     == 3
MaxRequests == 2

\* a request: the Stremio type and id, the user's configuration, the
\* server's SCROBBLE_THRESHOLD, whether the token decrypts, and what Simkl
\* answers to the lookup
Request(type, id, token, decrypts, movies, shows, anime, threshold, env, anilistToken, anilistEnabled, answer) ==
    [type |-> type, id |-> id, token |-> token, decrypts |-> decrypts,
     movies |-> movies, shows |-> shows, anime |-> anime,
     threshold |-> threshold, env |-> env, anilistToken |-> anilistToken,
     anilistEnabled |-> anilistEnabled, answer |-> answer]

Answer(status, runtime, type, mal) ==
    [status |-> status, runtime |-> runtime, type |-> type, mal |-> mal]

IdMovie     == <<"t", "t", "1">>
IdSeries    == <<"t", "t", "1", ":", "1", ":", "5">>
IdSeriesBad == <<"t", "t", "1", ":", "x", ":", "5">>
IdTwoParts  == <<"t", "t", "1", ":", "1">>
IdKitsu     == <<"k", "i", "t", "s", "u", ":", "7">>
IdKitsuEp   == <<"k", "i", "t", "s", "u", ":", "7", ":", "2">>
IdKitsuBad  == <<"k", "i", "t", "s", "u", ":", "7", ":", "x">>
IdKitsuNone == <<"k", "i", "t", "s", "u", ":", ":", "2">>
IdOther     == <<"x", "1">>

Ids == {IdMovie, IdSeries, IdSeriesBad, IdTwoParts, IdKitsu, IdKitsuEp,
        IdKitsuBad, IdKitsuNone, IdOther}

\* threshold texts: every text of at most MaxText characters over a small
\* alphabet, and two longer ones
ThresholdChars == {"0", "1", "5", ".", "-", "x"}
ThresholdTexts ==
    UNION { [1..n -> ThresholdChars] : n \in 0..MaxText }
      \cup {Unset, DefaultThreshold, <<".", "1", "2", "3", "4", "8">>}
EnvTexts == {Unset, <<"x">>, <<".", "5">>}

Runtimes == {Undef, 0, 1, 4, 5, 7, 90}

\* the requests that vary the threshold and the runtime
ThresholdRequests ==
    { Request("movie", IdMovie, "u1", TRUE, "1", "1", "1", t, e, NoToken, "0",
              Answer("item", rt, "movie", Undef)) :
        t \in ThresholdTexts, e \in EnvTexts, rt \in Runtimes }

\* the requests that vary the type, the id, the configuration and the answer
IdRequests ==
    { Request(ty, id, "u1", TRUE, movies, shows, anime, Unset, Unset, "tok", "1", a) :
        ty \in {"movie", "series", "anime"}, id \in Ids,
        movies \in {"0", "1"}, shows \in {"0", "1"}, anime \in {"0", "1"},
        a \in {Answer("error", Undef, "none", Undef), Answer("none", Undef, "none", Undef)}
                \cup { Answer("item", Undef, mt, 1) : mt \in {"movie", "show", "anime"} } }
      \cup { Request(ty, IdMovie, tok, dec, "1", "1", "1", Unset, Unset, "tok", "1",
                     Answer("item", Undef, "movie", 1)) :
               ty \in {"movie", "series", "anime"}, tok \in {NoUser, "u1"}, dec \in BOOLEAN }

\* the handler serves one request, any of the above
PlanNext ==
    \/ initScrobbleWorker
    \/ \E r \in ThresholdRequests \cup IdRequests : plan[1] = NoPlan /\ Subtitles(1, r)

SpecPlan == Init /\ [][PlanNext]_vars

\* the requests of one user for anime episodes, with and without an AniList
\* credential, with AniList enabled and disabled, long enough and too short
\* and the requests the handler cannot serve: no token, a token that does not
\* decrypt, no record at Simkl
HandlerRequests ==
    { Request("anime", IdKitsuEp, "u1", TRUE, "1", "1", "1", Unset, Unset, tok, en,
              Answer("item", rt, "anime", 1)) :
        tok \in {NoToken, "tok"}, en \in {"0", "1"}, rt \in {4, Undef} }
      \cup { Request("anime", IdKitsuEp, NoUser, TRUE, "1", "1", "1", Unset, Unset, NoToken, "0",
                     Answer("item", Undef, "anime", 1)),
             Request("anime", IdKitsuEp, "u1", FALSE, "1", "1", "1", Unset, Unset, NoToken, "0",
                     Answer("item", Undef, "anime", 1)),
             Request("anime", IdKitsuEp, "u1", TRUE, "1", "1", "1", Unset, Unset, NoToken, "0",
                     Answer("none", Undef, "none", Undef)) }

HandlerNext ==
    \/ initScrobbleWorker
    \/ Tick
    \/ \E c \in 1..MaxRequests :
        \/ \E r \in HandlerRequests : Subtitles(c, r)
        \/ GetJob(c)
        \/ GetState(c)
        \/ Remove(c)
        \/ CancelHit(c)
        \/ CancelMiss(c)
        \/ Add(c)
        \/ SetRegistry(c)
    \/ \E id \in JobIds :
        \/ Promote(id)
        \/ ExecStart(id)
        \/ \E o \in PrimaryOutcomes : PrimaryReturns(id, o)
        \/ \E r \in SearchResults : SearchReturns(id, r)
        \/ \E b \in BOOLEAN : UpdateReturns(id, b)
        \/ Finish(id)
        \/ Callback(id)

SpecHandler == Init /\ [][HandlerNext]_vars

----------------------------------------------------------------------------
(* Properties of processScrobbleJob *)

\* the execution of job id is past its last await: it returned or threw, and
\* the worker may already have recorded the outcome
Ended(id) == exec[id].pc \in {"returned", "rejected", "emit"}

\* the execution of job id ends in failure: processScrobbleJob throws and the
\* store records the job as failed
EndsFailed(id) ==
    /\ exec[id].pc /= "returned"
    /\ exec[id].pc = "emit" => store[id].st = "failed"

\* the execution of job id ends in success: processScrobbleJob returns and
\* the store records the job as completed
EndsCompleted(id) ==
    /\ exec[id].pc \in {"returned", "emit"}
    /\ exec[id].pc = "emit" => store[id].st = "completed"

\* C7: for every content kind, when the Simkl call returned failure the
\* execution ends in failure, whatever the AniList credential, lookup result
\* and update result are.
C7_PrimaryFailureIsFatal ==
    \A id \in JobIds :
        exec[id].primary = "fail" =>
            /\ EndsFailed(id)
            /\ exec[id].pc \in {"search", "update", "rejected", "emit"}

\* C7 witness: an anime job whose Simkl call failed, whose AniList update then
\* succeeded, and which is recorded as failed.
C7_Witness ==
    \E id \in JobIds :
        /\ store[id].data.type = "anime"
        /\ exec[id].primary = "fail"
        /\ exec[id].updated = 1 /\ exec[id].anilistSuccess
        /\ exec[id].pc = "emit" /\ store[id].st = "failed"

\* C8: when the Simkl call of an anime job failed, neither searchAnimeByMalId
\* nor updateAnimeProgress is called in that execution.
C8_NoSecondaryAfterPrimaryFailure ==
    \A id \in JobIds :
        (store[id].data.type = "anime" /\ exec[id].primary = "fail") =>
            (exec[id].searched = 0 /\ exec[id].updated = 0)

\* C9: when the Simkl call of an anime job succeeded and updateAnimeProgress
\* answered false, the execution ends in success and is not recorded as failed.
C9_SecondaryFailureNotFatal ==
    \A id \in JobIds :
        (exec[id].primary = "ok" /\ exec[id].updated > 0 /\ Ended(id)
            /\ ~exec[id].anilistSuccess) => EndsCompleted(id)

\* C9 witness: Simkl succeeded, the AniList update failed, the job is
\* recorded as completed.
C9_Witness ==
    \E id \in JobIds :
        /\ exec[id].primary = "ok" /\ exec[id].updated = 1
        /\ ~exec[id].anilistSuccess
        /\ exec[id].pc = "emit" /\ store[id].st = "completed"

\* no AniList id can be resolved for job id: none is embedded, and there is
\* no MAL id to look up or the lookup returned nothing
Unresolved(id) ==
    /\ ~TruthyNum(store[id].data.anilistId)
    /\ \/ ~TruthyNum(store[id].data.malId)
       \/ exec[id].searchResult = Null

\* C10: an anime job with an AniList credential, Simkl succeeded and no
\* AniList id resolved: updateAnimeProgress is not called and the execution
\* ends in success.
C10_UnresolvedSecondaryIsSkipped ==
    \A id \in JobIds :
        (/\ store[id].data.type = "anime"
         /\ TruthyStr(store[id].data.anilistToken)
         /\ exec[id].primary = "ok"
         /\ Unresolved(id)) =>
            (exec[id].updated = 0 /\ exec[id].anilistSuccess /\ EndsCompleted(id))

\* C10 witness: the lookup by MAL id was made and returned nothing, and the
\* job is recorded as completed without an update.
C10_Witness ==
    \E id \in JobIds :
        /\ store[id].data.type = "anime"
        /\ TruthyStr(store[id].data.anilistToken)
        /\ exec[id].primary = "ok"
        /\ exec[id].searched = 1 /\ exec[id].searchResult = Null
        /\ exec[id].updated = 0
        /\ exec[id].pc = "emit" /\ store[id].st = "completed"

----------------------------------------------------------------------------
(* Properties of the queue *)

\* the jobs in the store that call c added
JobsOf(c) == { id \in JobIds : store[id].inst = c }

\* calls c and d ran concurrently: neither was over when the other began
Overlapped(c, d) ==
    /\ c /= d
    /\ calls[c].pc /= "idle" /\ calls[d].pc /= "idle"
    /\ c \notin calls[d].preds /\ d \notin calls[c].preds

\* the calls of user u so far ran one after the other
Sequential(u) ==
    \A c, d \in CallIds :
        (calls[c].user = u /\ calls[d].user = u) => ~Overlapped(c, d)

\* C1: in every reachable state each user has at most one pending (delayed or
\* waiting) job in the store.
C1_AtMostOnePendingPerUser ==
    \A u \in Users : Cardinality(PendingOf(u)) <= 1

\* C2: after two concurrent scheduleScrobble calls of one user have both
\* returned (no other call of the user, neither job started yet), exactly one
\* of the two new jobs is pending in the store and the registry holds its id.
C2_ConcurrentCallsLeaveOneJob ==
    \A c, d \in CallIds :
        (/\ Overlapped(c, d)
         /\ calls[c].user = calls[d].user
         /\ calls[c].pc = "done" /\ calls[d].pc = "done"
         /\ ran[c] = 0 /\ ran[d] = 0
         /\ \A o \in CallIds \ {c, d} : calls[o].user /= calls[c].user) =>
            LET left == { id \in JobsOf(c) \cup JobsOf(d) : Pending(store[id].st) }
            IN  Cardinality(left) = 1 /\ registry[calls[c].user] \in left

\* the call of c's user that returned last before c began
Previous(c) ==
    { p \in calls[c].preds :
        /\ calls[p].user = calls[c].user /\ calls[p].pc = "done"
        /\ \A q \in calls[c].preds : calls[q].user = calls[c].user => q <= p }

\* C3: when a scheduleScrobble call returns that began after the user's
\* previous call had returned (the user's calls never overlapped) and the
\* previous call's job has not started, the registry holds the new job's id
\* and the previous job is gone from the store.
C3_SecondCallReplacesFirst ==
    [][ \A c \in CallIds :
          (/\ calls[c].pc = "added" /\ calls'[c].pc = "done"
           /\ Sequential(calls[c].user)
           /\ \E p \in Previous(c) : ran[p] = 0) =>
              (/\ registry'[calls[c].user] = calls[c].jobId
               /\ store'[calls[c].jobId].inst = c
               /\ \A p \in Previous(c) : \A id \in JobIds : store'[id].inst /= p) ]_vars

\* C5: a superseded job (still pending when a later scheduleScrobble call of
\* its user returned) never begins executing.
C5_SupersededNeverExecuted ==
    \A c \in superseded : ran[c] = 0

\* C6: a step of a call of user A leaves the registry entry and the jobs of
\* every other user B unchanged.
C6_OtherUsersUntouched ==
    [][ \A c \in CallIds :
          calls'[c] /= calls[c] =>
             \A b \in Users \ {calls'[c].user} :
                /\ registry'[b] = registry[b]
                /\ \A id \in JobIds : store[id].user = b => store'[id] = store[id] ]_vars

\* C6 witness: a call of one user has just removed that user's job while
\* another user has a registry entry and a pending job.
C6_Witness ==
    \E c \in CallIds :
        /\ calls[c].pc = "removed"
        /\ \E b \in Users \ {calls[c].user} :
              /\ registry[b] /= NoJob
              /\ registry[b] \in PendingOf(b)

----------------------------------------------------------------------------
(* The debounce over a sequence of calls of one user *)

Quiet(u) == \A c \in CallIds : calls[c].user = u => ~InFlight(c)

Returned(u) == { c \in CallIds : calls[c].user = u /\ calls[c].pc = "done" }

\* the call of user u that returned last (calls begin in the order of their ids)
Last(u) == CHOOSE c \in Returned(u) : \A d \in Returned(u) : d <= c

\* the calls of u so far form a sequence of accepted scheduleScrobble calls
\* in which no job began executing before the last call
Clean(u) ==
    /\ Sequential(u)
    /\ ~early[u]
    /\ \A c \in CallIds : calls[c].user = u => calls[c].pc /= "threw"

\* the job of the last call has begun executing
LastRan(u) == Returned(u) /= {} /\ ran[Last(u)] = 1

\* only the job of the last call has begun executing, and only once
OnlyLastRan(u) ==
    \A c \in CallIds :
        (calls[c].user = u /\ ran[c] > 0) =>
            (Returned(u) /= {} /\ c = Last(u) /\ ran[c] = 1)

\* a job begins executing no earlier than the delay of the call that added
\* it, counted from that call's own timestamp
StartsAfterOwnDelay ==
    \A id \in JobIds :
        (store[id].st /= "active" /\ store'[id].st = "active") =>
            now >= calls[store[id].inst].ts + calls[store[id].inst].delay

\* C4: for a sequence of scheduleScrobble calls of one user in which no job
\* begins executing before the last call, only the job of the last call is
\* executed, once, not before its own delay counted from its own admission,
\* and (the store and the worker being fair) it is executed eventually.
C4_OnlyLastJobFires ==
    /\ [](\A u \in Users : Clean(u) => OnlyLastRan(u))
    /\ [][StartsAfterOwnDelay]_vars
    /\ \A u \in Users :
          (Clean(u) /\ Quiet(u) /\ Returned(u) /= {})
             ~> (~Clean(u) \/ ~Quiet(u) \/ LastRan(u))

\* C4 witness: two calls of a user, one after the other; the first job never
\* ran and the second is executing.
C4_Witness ==
    \E c, d \in CallIds :
        /\ calls[c].user = calls[d].user
        /\ calls[c].pc = "done" /\ calls[d].pc = "done"
        /\ c \in calls[d].preds
        /\ calls[d].ts > calls[c].ts
        /\ Clean(calls[d].user)
        /\ ran[c] = 0 /\ ran[d] = 1
        /\ JobsOf(c) = {}
        /\ store[calls[d].jobId].st = "active"

----------------------------------------------------------------------------
(* The calls of one user against a store that answers every request *)

StoreUpNext ==
    \/ initScrobbleWorker
    \/ Tick
    \/ \E c \in CallIds :
        \/ \E d \in QueueData, dl \in Delays : Begin(c, "schedule", "u1", d, dl)
        \/ GetJob(c)
        \/ GetState(c)
        \/ Remove(c)
        \/ CancelHit(c)
        \/ CancelMiss(c)
        \/ Add(c)
        \/ SetRegistry(c)
    \/ WorkerNext

SpecStoreUp == Init /\ [][StoreUpNext]_vars

----------------------------------------------------------------------------
(* Properties of the registry and of the order of steps in a call *)

\* C11: when the worker's callback for a job runs after the job completed or
\* failed, the registry entry of the job's user is removed: right after the
\* callback a cancelPendingScrobble for that user finds no entry.
C11_OutcomeClearsRegistry ==
    [][ \A id \in JobIds :
          (exec[id].pc = "emit" /\ exec'[id].pc = "idle") =>
              registry'[id[1]] = NoJob ]_vars

\* C11 witness: the call that added a job returned (the registry held the
\* job), the job failed, its callback ran and the registry entry is gone.
C11_Witness ==
    \E id \in JobIds :
        /\ store[id].st = "failed" /\ exec[id].pc = "idle"
        /\ calls[store[id].inst].pc = "done"
        /\ calls[store[id].inst].jobId = id
        /\ registry[id[1]] = NoJob

\* scheduleScrobble call c rejected at scrobbleQueue.add
FailedAdd(c) == calls[c].pc = "threw" /\ calls[c].jobId /= NoJob

\* no call of c's user began after c
LatestOfUser(c) ==
    \A d \in CallIds : (d > c /\ calls[d].pc /= "idle") => calls[d].user /= calls[c].user

\* C12: when scrobbleQueue.add rejects, the call rejects and stays rejected,
\* the step leaves the registry as it is (the new id is not recorded), the
\* registry entry of the user was cleared when the add was issued, and, with
\* no other call of the user running, the user has no registry entry and the
\* call has added no job.
C12_FailedAddClearsEntry ==
    /\ [](\A c \in CallIds :
            (FailedAdd(c) /\ LatestOfUser(c) /\ Sequential(calls[c].user)) =>
                (registry[calls[c].user] = NoJob /\ JobsOf(c) = {}))
    /\ [][ \A c \in CallIds :
             /\ (calls[c].pc /= "add" /\ calls'[c].pc = "add") =>
                    registry'[calls'[c].user] = NoJob
             /\ (calls[c].pc = "add" /\ calls'[c].pc = "threw") =>
                    registry' = registry
             /\ calls[c].pc = "threw" => calls'[c] = calls[c] ]_vars

\* C12 witness: a call cancelled the job of the user's previous call and then
\* rejected at the add; the user has no registry entry.
C12_Witness ==
    \E c \in CallIds :
        /\ FailedAdd(c)
        /\ registry[calls[c].user] = NoJob
        /\ \E p \in calls[c].preds :
              /\ calls[p].user = calls[c].user /\ calls[p].pc = "done"
              /\ ran[p] = 0 /\ JobsOf(p) = {}

\* C13: within one call the add is issued only once the cancellation is over
\* (the prior job was removed, or there was none to remove, or no entry was
\* recorded), a job of the call enters the store only at the add, and the
\* registry is set to the call's id only after the add was answered.
C13_CancelThenAddThenRecord ==
    [][ \A c \in CallIds :
          /\ (calls[c].pc /= "add" /\ calls'[c].pc = "add") =>
                \/ calls[c].pc \in {"removed", "miss"}
                \/ calls[c].pc = "idle" /\ registry[calls'[c].user] = NoJob
          /\ (\E id \in JobIds : store[id].inst /= c /\ store'[id].inst = c) =>
                (calls[c].pc = "add" /\ calls'[c].pc = "added")
          /\ (calls'[c] /= calls[c] /\ registry'[calls'[c].user] /= registry[calls'[c].user]
                /\ registry'[calls'[c].user] /= NoJob) =>
                (calls[c].pc = "added" /\ registry'[calls[c].user] = calls[c].jobId) ]_vars

\* C13 witness: a call has finished cancelling the job of the previous call
\* (it is gone from the store) and has issued its add, which has not landed.
C13_Witness ==
    \E c \in CallIds :
        /\ calls[c].pc = "add"
        /\ JobsOf(c) = {}
        /\ \E p \in calls[c].preds :
              /\ calls[p].user = calls[c].user /\ calls[p].pc = "done"
              /\ ran[p] = 0 /\ JobsOf(p) = {}

\* C14: a scheduleScrobble call does not fail because a job of its user has
\* begun executing, also when the job starts between the call's state check
\* and its removal (the store answers every request).
C14_RunningJobDoesNotFailCall ==
    \A c \in CallIds :
        (\E p \in CallIds : calls[p].user = calls[c].user /\ ran[p] > 0) =>
            calls[c].pc /= "threw"

\* C15: the job ids generated by the scheduleScrobble calls of one user are
\* pairwise different.
C15_JobIdsAreFresh ==
    \A c, d \in CallIds :
        (/\ c /= d
         /\ calls[c].jobId /= NoJob /\ calls[d].jobId /= NoJob
         /\ calls[c].user = calls[d].user) =>
            calls[c].jobId /= calls[d].jobId

----------------------------------------------------------------------------
(* Properties of the subtitles handler *)

\* C16: when the handler serves a request whose looked-up runtime is below
\* 5 minutes, that step changes no call, no job and no registry entry:
\* scheduleScrobble is not called.
C16_ShortRuntimeSchedulesNothing ==
    [][ \A c \in CallIds :
          (/\ plan'[c] /= plan[c]
           /\ plan'[c].outcome \in {"tooShort", "scheduled"}
           /\ plan'[c].runtime < MINIMUM_RUNTIME_MINUTES) =>
              (calls' = calls /\ store' = store /\ registry' = registry) ]_vars

\* C16 witness: a request with a runtime of 4 minutes was served while the
\* user had a pending job that the registry points to; no call was made.
C16_Witness ==
    \E c \in CallIds :
        /\ plan[c].outcome = "tooShort" /\ plan[c].runtime = 4
        /\ calls[c].pc = "idle"
        /\ registry["u1"] /= NoJob
        /\ registry["u1"] \in PendingOf("u1")

\* the threshold text the handler parses
EffectiveText(p) ==
    IF TruthyText(p.text) THEN p.text
    ELSE IF TruthyText(p.env) THEN p.env ELSE DefaultThreshold

\* C17: whatever the configured threshold text, the effective threshold is a
\* number in [0.1, 1.0]; a text that reads as more than 1.0 gives 1.0 and one
\* that reads as less than 0.1 gives 0.1.
C17_ThresholdIsClamped ==
    \A c \in CallIds :
        plan[c].outcome = "scheduled" =>
            LET t  == plan[c].threshold
                given == parseFloat(EffectiveText(plan[c]))
            IN  /\ ~IsNaN(t)
                /\ t.v >= Micro \div 10 /\ t.v <= Micro
                /\ (~IsNaN(given) /\ given.v > Micro) => t.v = Micro
                /\ (~IsNaN(given) /\ given.v < Micro \div 10) => t.v = Micro \div 10

\* n / d rounded to the nearest integer (n >= 0, d > 0)
RoundDiv(n, d) == (2 * n + d) \div (2 * d)

\* C18: for a runtime of at least 5 minutes and a numeric effective
\* threshold, the delay passed to scheduleScrobble is
\* runtime * 60000 * threshold rounded to the nearest millisecond.
C18_DelayIsRoundedProduct ==
    \A c \in CallIds :
        (plan[c].outcome = "scheduled" /\ ~IsNaN(plan[c].threshold)) =>
            plan[c].delayMs =
                Num(RoundDiv(plan[c].runtime * 6 * plan[c].threshold.v, Micro \div 10000))

\* a job data field holds a number
IsNumber(x) == x /= Undef /\ x /= NotANumber

\* C19: the job data of every call the handler makes has an episode number
\* when its type is 'anime', and a season and an episode number when its
\* type is 'episode'.
C19_JobDataIsWellFormed ==
    \A c \in CallIds :
        plan[c].outcome = "scheduled" =>
            LET d == calls[c].data IN
            /\ d.type = "anime" => IsNumber(d.episode)
            /\ d.type = "episode" => (IsNumber(d.season) /\ IsNumber(d.episode))

\* C20: a job the handler creates for a configuration with anilistEnabled =
\* '0' carries no AniList credential, and its execution makes no AniList call.
C20_CredentialOnlyWhenOptedIn ==
    \A c \in CallIds :
        (plan[c].outcome = "scheduled" /\ plan[c].anilistEnabled = "0") =>
            /\ calls[c].data.anilistToken = NoToken
            /\ \A id \in JobsOf(c) : exec[id].searched = 0 /\ exec[id].updated = 0

\* C21: when the handler serves a request without a token, or with a token
\* that does not decrypt, or for which Simkl has no record, it returns its
\* empty answer without failing and that step changes no call, no job and no
\* registry entry: scheduleScrobble is not called.
C21_UnservableRequestIsSkipped ==
    [][ \A c \in CallIds :
          (/\ plan'[c] /= plan[c]
           /\ plan'[c].outcome /= "none"
           /\ \/ ~plan'[c].seen.hasToken
              \/ ~plan'[c].seen.decrypts
              \/ plan'[c].seen.status = "none") =>
              (/\ plan'[c].outcome \in {"noToken", "disabled", "decryptFailed",
                                         "invalidId", "notFound"}
               /\ calls' = calls /\ store' = store /\ registry' = registry) ]_vars

\* C21 witness: a request for which Simkl has no record was served while the
\* user had a pending job that the registry points to; no call was made.
C21_Witness ==
    \E c \in CallIds :
        /\ plan[c].outcome = "notFound" /\ plan[c].seen.status = "none"
        /\ calls[c].pc = "idle"
        /\ registry["u1"] /= NoJob
        /\ registry["u1"] \in PendingOf("u1")

----------------------------------------------------------------------------
(* Termination and repetition of executions *)

\* C22: every execution that has started reaches a terminal outcome: the
\* store records the job as completed or failed.
C22_ExecutionEnds ==
    \A id \in JobIds :
        (store[id].st = "active") ~> (store[id].st \in {"completed", "failed"})

\* C23: a job recorded as failed stays failed (or is removed): it is not put
\* back on the wait list, its execution makes no further call, and the job
\* of every call begins executing at most once.
C23_FailedJobIsNotRetried ==
    [][ /\ \A id \in JobIds :
             store[id].st = "failed" =>
                (/\ store'[id].st \in {"failed", "none"}
                 /\ exec[id].pc \in {"emit", "idle"}
                 /\ exec'[id].pc \in {"emit", "idle"})
        /\ \A c \in CallIds : ran'[c] <= 1 ]_vars

\* C23 witness: a job threw, is recorded as failed, its callback has run, and
\* it began executing once.
C23_Witness ==
    \E id \in JobIds :
        /\ store[id].st = "failed" /\ exec[id].pc = "idle"
        /\ ran[store[id].inst] = 1
        /\ now >= store[id].fireAt

----------------------------------------------------------------------------
(* cancelPendingScrobble called on its own (it is exported) next to the     *)
(* scheduleScrobble calls of the same user, against a store that answers    *)
(* every request                                                            *)

CancelNext ==
    \/ StoreUpNext
    \/ \E c \in CallIds : Begin(c, "cancel", "u1", NoData, 0)

SpecCancel == Init /\ [][CancelNext]_vars

\* C24: cancelPendingScrobble returns true exactly when it removed a job: its
\* job.remove() always ends with a pending (delayed or waiting) job taken out
\* of the store, after which it returns true; it returns false when the
\* registry has no entry, when the job is absent and when the job has fired.
C24_CancelReturnsWhetherItRemoved ==
    [][ \A c \in CallIds :
          /\ (calls[c].pc = "remove" /\ calls'[c].pc /= "remove") =>
                /\ calls'[c].pc = "removed"
                /\ Pending(store[calls[c].existing].st)
                /\ store'[calls[c].existing].st = "none"
          /\ (calls[c].pc = "removed" /\ calls'[c].pc /= "removed") =>
                calls'[c].pc \in {"cancelled", "add"}
          /\ (calls[c].pc = "getJob" /\ calls'[c].pc = "miss") =>
                store[calls[c].existing].st = "none"
          /\ (calls[c].pc = "getState" /\ calls'[c].pc = "miss") =>
                ~Pending(store[calls[c].existing].st)
          /\ (calls[c].pc = "miss" /\ calls'[c].pc /= "miss") =>
                calls'[c].pc \in {"nothing", "add"}
          /\ (calls[c].pc = "idle" /\ calls'[c].pc \in {"nothing", "add"}) =>
                registry[calls'[c].user] = NoJob /\ store' = store ]_vars

\* C25: a cancelPendingScrobble for a user without a registry entry returns
\* false at once and changes neither the registry nor the store, and every
\* cancelPendingScrobble that returns leaves the user without an entry, so
\* that a second call right after it is such a call.
C25_ClearingIsIdempotent ==
    [][ \A c \in CallIds :
          /\ (/\ calls[c].pc = "idle" /\ calls'[c].pc /= "idle"
              /\ calls'[c].op = "cancel"
              /\ registry[calls'[c].user] = NoJob) =>
                /\ calls'[c].pc = "nothing"
                /\ registry' = registry
                /\ store' = store
          /\ (/\ calls[c].op = "cancel"
              /\ calls[c].pc \notin {"cancelled", "nothing"}
              /\ calls'[c].pc \in {"cancelled", "nothing"}) =>
                registry'[calls[c].user] = NoJob ]_vars

\* C25 witness: a cancelPendingScrobble removed the user's pending job and
\* returned true; the next call, begun after it returned, found no entry and
\* returned false, and no job of the user is in the store.
C25_Witness ==
    \E c, d \in CallIds :
        /\ d = c + 1
        /\ calls[c].op = "cancel" /\ calls[d].op = "cancel"
        /\ calls[c].user = calls[d].user
        /\ calls[c].pc = "cancelled" /\ calls[d].pc = "nothing"
        /\ c \in calls[d].preds
        /\ registry[calls[c].user] = NoJob
        /\ PendingOf(calls[c].user) = {}

----------------------------------------------------------------------------
(* The registry against the store *)

\* C26: whenever no call of a user is in progress, every pending (delayed or
\* waiting) job of that user in the store is the one the registry holds for
\* the user.
C26_PendingJobIsRegistered ==
    \A u \in Users :
        Quiet(u) => \A id \in PendingOf(u) : registry[u] = id

\* The process is stopped and started again.  On SIGINT or SIGTERM
\* shutdownQueue awaits worker.close(), which lets the running executions and
\* their callbacks finish, and the process exits (part_001:791-802,
\* queue.ts:193-200); here no request is being served at that moment.  The
\* store is Redis and keeps its jobs; the new process builds userJobIds as an
\* empty Map (queue.ts:37) and has no worker until initScrobbleWorker runs.
Restart ==
    /\ worker
    /\ \A c \in CallIds : ~InFlight(c)
    /\ \A id \in JobIds : exec[id].pc = "idle" /\ store[id].st /= "active"
    /\ worker' = FALSE
    /\ workers' = 0
    /\ registry' = [u \in Users |-> NoJob]
    /\ UNCHANGED <<now, store, calls, exec, ran, superseded, early, plan>>

RestartNext == StoreUpNext \/ Restart

SpecRestart == Init /\ [][RestartNext]_vars

\* C27: also when the process was restarted in between, a user whose
\* scheduleScrobble calls came one after the other, each returned and none
\* made after a job of the user began executing, has at most one pending job.
C27_DebounceSurvivesRestart ==
    \A u \in Users :
        (Quiet(u) /\ Clean(u)) => Cardinality(PendingOf(u)) <= 1

----------------------------------------------------------------------------
(* The AniList part of an execution *)

\* C28: an execution calls searchAnimeByMalId or updateAnimeProgress only for
\* an anime job with an AniList token; a movie or episode job never does,
\* with or without a token, and once its Simkl call has answered it ends in
\* success exactly when that call succeeded.
C28_SecondaryOnlyForAnimeWithToken ==
    \A id \in JobIds :
        LET d == store[id].data
            e == exec[id]
        IN /\ (e.searched > 0 \/ e.updated > 0 \/ e.pc \in {"search", "update"}) =>
                 (d.type = "anime" /\ TruthyStr(d.anilistToken))
           /\ (d.type \in {"movie", "episode"} /\ e.primary /= "none") =>
                 /\ Ended(id)
                 /\ EndsCompleted(id) <=> e.primary = "ok"
                 /\ EndsFailed(id) <=> e.primary /= "ok"

\* C28 witness: a movie job that carries an AniList token has ended, recorded
\* as failed after its Simkl call failed, without any AniList call.
C28_Witness ==
    \E id \in JobIds :
        /\ store[id].data.type = "movie"
        /\ TruthyStr(store[id].data.anilistToken)
        /\ TruthyNum(store[id].data.anilistId)
        /\ exec[id].primary = "fail"
        /\ exec[id].searched = 0 /\ exec[id].updated = 0
        /\ exec[id].pc = "emit" /\ store[id].st = "failed"

\* C29: while the Simkl call of an execution is outstanding no AniList call
\* has been made, and an AniList call is made or outstanding only in an
\* execution whose Simkl call has answered.
C29_PrimaryReturnsBeforeSecondary ==
    \A id \in JobIds :
        /\ exec[id].pc = "primary" =>
              (exec[id].searched = 0 /\ exec[id].updated = 0 /\ exec[id].primary = "none")
        /\ (exec[id].searched > 0 \/ exec[id].updated > 0
              \/ exec[id].pc \in {"search", "update"}) =>
              exec[id].primary \in {"ok", "fail"}

\* C29 witness: the lookup by MAL id of an anime execution is outstanding and
\* its Simkl call has answered with success.
C29_Witness ==
    \E id \in JobIds :
        /\ store[id].data.type = "anime"
        /\ store[id].st = "active"
        /\ exec[id].pc = "search" /\ exec[id].searched = 1
        /\ exec[id].primary = "ok"

\* C30: in an anime execution with an AniList token whose Simkl call has
\* answered: with an embedded anilistId no lookup is made and that id is the
\* one used; without one and with a malId the lookup is made exactly once and
\* its result, when there is one, is the id used; without either no lookup is
\* made.  updateAnimeProgress is called at most once, and only with an id.
C30_SecondaryIdResolution ==
    \A id \in JobIds :
        LET d == store[id].data
            e == exec[id]
        IN /\ (d.type = "anime" /\ TruthyStr(d.anilistToken) /\ e.primary \in {"ok", "fail"}) =>
                 /\ TruthyNum(d.anilistId) =>
                       (e.searched = 0 /\ e.actualAnilistId = d.anilistId)
                 /\ (~TruthyNum(d.anilistId) /\ TruthyNum(d.malId)) =>
                       /\ e.searched = 1
                       /\ (e.pc /= "search" /\ e.searchResult /= Null) =>
                             e.actualAnilistId = e.searchResult
                 /\ (~TruthyNum(d.anilistId) /\ ~TruthyNum(d.malId)) =>
                       (e.searched = 0 /\ e.updated = 0)
           /\ e.searched <= 1
           /\ e.updated <= 1
           /\ (e.updated = 1 \/ e.pc = "update") => TruthyNum(e.actualAnilistId)

\* C30 witness: an anime job that embeds an anilistId and also has a malId
\* has ended after one updateAnimeProgress call and no lookup.
C30_Witness ==
    \E id \in JobIds :
        /\ store[id].data.type = "anime"
        /\ TruthyStr(store[id].data.anilistToken)
        /\ TruthyNum(store[id].data.anilistId) /\ TruthyNum(store[id].data.malId)
        /\ exec[id].primary = "ok"
        /\ exec[id].searched = 0 /\ exec[id].updated = 1
        /\ exec[id].actualAnilistId = store[id].data.anilistId
        /\ exec[id].pc = "emit" /\ store[id].st = "completed"

----------------------------------------------------------------------------
(* The handler around scheduleScrobble, and the worker pool *)

\* C31: a scheduleScrobble call that the handler made never rejects into the
\* handler: whatever happens to the call, the handler goes on to return its
\* empty subtitles list.
C31_HandlerSurvivesScheduleFailure ==
    \A c \in CallIds :
        plan[c].outcome = "scheduled" => calls[c].pc /= "threw"

\* The worker pool against a store that holds more due jobs than the pool
\* has slots.  The store is Redis and outlives the process: the process
\* starts with the jobs an earlier process left (all of them due by now, so
\* waiting), an empty registry and no worker.  Such a job was added by no
\* call of this process (inst 0, as in NoRec).
Survivor(id) ==
    [st |-> "waiting", user |-> id[1], fireAt |-> id[2], data |-> MovieData, inst |-> 0]

InitPool ==
    /\ now = MaxClock
    /\ worker = FALSE
    /\ workers = 0
    /\ registry = [u \in Users |-> NoJob]
    /\ store = [id \in JobIds |-> Survivor(id)]
    /\ calls = [c \in CallIds |-> IdleCall]
    /\ exec = [id \in JobIds |-> IdleExec]
    /\ ran = [c \in CallIds |-> 0]
    /\ superseded = {}
    /\ early = [u \in Users |-> FALSE]
    /\ plan = [c \in CallIds |-> NoPlan]

\* the Simkl call answers true or false
PoolOutcomes == {"ok", "fail"}

PoolNext ==
    \/ initScrobbleWorker
    \/ \E id \in JobIds :
        \/ ExecStart(id)
        \/ \E o \in PoolOutcomes : PrimaryReturns(id, o)
        \/ Finish(id)
        \/ Callback(id)

SpecPool == InitPool /\ [][PoolNext]_vars

\* the executions in flight: processScrobbleJob was called for the job and
\* has not returned or thrown into the worker yet
InFlightJobs == { id \in JobIds : exec[id].pc \in {"primary", "search", "update"} }

\* C32: at most `concurrency` (5) executions are in flight, and at most that
\* many jobs are held by the worker.
C32_PoolIsBounded ==
    /\ Cardinality(InFlightJobs) <= 5
    /\ Cardinality(ActiveJobs) <= 5

\* C32 witness: five executions are in flight at once, for jobs of two
\* different users, and a sixth due job waits for a slot.
C32_Witness ==
    /\ Cardinality(InFlightJobs) = 5
    /\ \E i, j \in InFlightJobs : store[i].user /= store[j].user
    /\ \E id \in JobIds : store[id].st = "waiting"

----------------------------------------------------------------------------
(* What the callbacks and cancelPendingScrobble do to the registry *)

\* C33: the worker's callback for job J leaves the registry entry of J's
\* user as it is when that entry holds the id of another job.
C33_CallbackClearsOnlyOwnEntry ==
    [][ \A id \in JobIds :
          (/\ exec[id].pc = "emit" /\ exec'[id].pc = "idle"
           /\ registry[id[1]] /= id) =>
              registry'[id[1]] = registry[id[1]] ]_vars

\* C34: whenever cancelPendingScrobble returns (after a removal, for a job
\* that is absent, active or finished, or without an entry) the registry has
\* no entry for the user, and on the paths without a removal the store is
\* left as it is.
C34_CancelAlwaysClearsEntry ==
    [][ \A c \in CallIds :
          (/\ calls[c].pc \in {"idle", "removed", "miss"}
           /\ calls'[c].pc \in {"cancelled", "nothing", "add"}) =>
              /\ registry'[calls'[c].user] = NoJob
              /\ calls[c].pc /= "removed" => store' = store ]_vars

\* C34 witness: the job a scheduleScrobble call added and recorded is
\* executing; a cancelPendingScrobble made after that call returned false,
\* the job is still held by the worker and the registry has no entry.
C34_Witness ==
    \E a, c \in CallIds :
        /\ calls[a].op = "schedule" /\ calls[a].pc = "done"
        /\ calls[c].op = "cancel" /\ calls[c].pc = "nothing"
        /\ calls[c].user = calls[a].user
        /\ a \in calls[c].preds
        /\ \A d \in CallIds \ {a, c} : calls[d].pc = "idle"
        /\ store[calls[a].jobId].st = "active"
        /\ exec[calls[a].jobId].pc = "primary"
        /\ registry[calls[a].user] = NoJob

----------------------------------------------------------------------------
(* Job data without the fields its type requires *)

\* the job data lacks what its type requires: an episode without season or
\* episode, an anime without episode, or a type that is none of the three
LacksFields(d) ==
    \/ d.type = "episode" /\ (d.season = Undef \/ d.episode = Undef)
    \/ d.type = "anime" /\ d.episode = Undef
    \/ d.type \notin {"movie", "episode", "anime"}

\* C35: the execution of a job whose data lacks required fields makes no call
\* to Simkl or AniList and returns without throwing: the job is recorded as
\* completed, never as failed.
C35_InvalidDataCompletesSilently ==
    \A id \in JobIds :
        LacksFields(store[id].data) =>
            /\ store[id].st /= "failed"
            /\ exec[id].pc \in {"idle", "returned", "emit"}
            /\ exec[id].primary = "none"
            /\ exec[id].searched = 0 /\ exec[id].updated = 0
            /\ exec[id].pc /= "idle" => EndsCompleted(id)

\* C35 witness: an anime job without episode that carries an AniList token
\* and ids was executed and is recorded as completed, with no call made.
C35_Witness ==
    \E id \in JobIds :
        /\ store[id].data.type = "anime" /\ store[id].data.episode = Undef
        /\ TruthyStr(store[id].data.anilistToken)
        /\ TruthyNum(store[id].data.malId)
        /\ store[id].st = "completed" /\ exec[id].pc = "emit"
        /\ exec[id].primary = "none" /\ exec[id].searched = 0

----------------------------------------------------------------------------
(* The kind of job the handler creates *)

\* C36: the handler schedules no job of a kind the configuration disables:
\* no 'movie' job with movies = '0', no 'episode' job with shows = '0' and no
\* 'anime' job with anime = '0'.
C36_DisabledKindIsNeverScheduled ==
    \A c \in CallIds :
        plan[c].outcome = "scheduled" =>
            /\ plan[c].seen.movies = "0" => calls[c].data.type /= "movie"
            /\ plan[c].seen.shows = "0" => calls[c].data.type /= "episode"
            /\ plan[c].seen.anime = "0" => calls[c].data.type /= "anime"

\* the id starts with 'kitsu:'
IsKitsuId(id) == StartsWith(id, <<"k", "i", "t", "s", "u", ":">>)

\* a season and an episode were both parsed from the id
HasSeasonAndEpisode(id) ==
    parseStremioId(id).season /= Absent /\ parseStremioId(id).episode /= Absent

\* C37: the type of the job the handler creates is 'anime' when the id is a
\* Kitsu id or the lookup reports anime; otherwise 'episode' exactly when the
\* request type is 'series' and season and episode were parsed; otherwise
\* 'movie'.  Hence a request that is not for a movie gets a 'movie' job only
\* when its id carries no season and episode.
C37_JobKindSelection ==
    \A c \in CallIds :
        plan[c].outcome = "scheduled" =>
            LET seen == plan[c].seen
                kind == calls[c].data.type
            IN /\ kind = IF IsKitsuId(seen.id) \/ seen.mediaType = "anime" THEN "anime"
                         ELSE IF seen.type = "series" /\ HasSeasonAndEpisode(seen.id)
                         THEN "episode"
                         ELSE "movie"
               /\ (kind = "movie" /\ seen.type /= "movie") => ~HasSeasonAndEpisode(seen.id)

----------------------------------------------------------------------------
(* The number of workers *)

\* C38: while a worker exists a further initScrobbleWorker builds none: at
\* most one Worker (with its pair of callbacks) is registered, there is one
\* exactly while `worker` is set, and the job of a call is handed to a
\* processor at most once.
C38_InitWorkerIsIdempotent ==
    [][ /\ worker => workers' <= workers
        /\ workers' <= 1
        /\ worker' <=> workers' = 1
        /\ \A c \in CallIds : ran'[c] <= 1 ]_vars

\* C38 witness: after a shutdown and a new start one worker is registered,
\* where initScrobbleWorker can be called again, and it has taken the due job
\* that an earlier call added, once.
C38_Witness ==
    /\ worker /\ workers = 1
    /\ \E c \in CallIds :
          /\ calls[c].pc = "done" /\ ran[c] = 1
          /\ registry[calls[c].user] = NoJob
          /\ store[calls[c].jobId].st = "active"

====
